---- MODULE Spec2Model ----
(***************************************************************************)
(* A model of the NBT binary codec of src/nbt/binary.cpp over the tag      *)
(* value type of src/nbt/tag.hpp.                                          *)
(*                                                                         *)
(* Representation of the C++ values:                                       *)
(*   - a byte of a QIODevice is a number in 0..255;                        *)
(*   - int8_t, int16_t and int32_t are the signed numbers they denote;     *)
(*   - int64_t is the tuple <<w3, w2, w1, w0>> of its four 16-bit words,   *)
(*     most significant first (the checker's integers are 32 bits wide);   *)
(*   - float and double are their bit patterns (an int32_t, an int64_t):   *)
(*     the code only ever moves them with memcpy;                          *)
(*   - a QString is the sequence of its UTF-16 code units;                 *)
(*   - a QMap<QString, Tag> is the sequence of its (key, value) nodes in   *)
(*     key order, which is the order its iterators visit.                  *)
(***************************************************************************)
EXTENDS Integers, Sequences, FiniteSets, TLC

----------------------------------------------------------------------------
(* src/nbt/tag.hpp: enum TagType *)

TAG_End == 0
TAG_Byte == 1
TAG_Short == 2
TAG_Int == 3
TAG_Long == 4
TAG_Float == 5
TAG_Double == 6
TAG_Byte_Array == 7
TAG_String == 8
TAG_List == 9
TAG_Compound == 10
TAG_Int_Array == 11
TAG_Long_Array == 12

TAG_ID_COUNT == TAG_Long_Array + 1

(* src/nbt/binary.cpp: constexpr int MAX_DEPTH *)
MAX_DEPTH == 1024

(* std::numeric_limits<int16_t> *)
INT16_MIN == -32768
INT16_MAX == 32767

----------------------------------------------------------------------------
(* Fixed-width integer conversions (static_cast between integer types).    *)

Min(a, b) == IF a < b THEN a ELSE b

(* static_cast<int8_t>(char) *)
ToInt8(b) == IF b % 256 >= 128 THEN (b % 256) - 256 ELSE b % 256

(* static_cast<int16_t>(int) *)
ToInt16(v) == IF v % 65536 >= 32768 THEN (v % 65536) - 65536 ELSE v % 65536

(* static_cast<uint16_t>(int16_t) *)
ToUInt16(v) == v % 65536

(* static_cast<char>(int), as the byte stored in a QByteArray *)
ToChar(v) == v % 256

(* the int64_t holding an int32_t: sign extension *)
Int32ToInt64(v) ==
    LET s == IF v < 0 THEN 65535 ELSE 0
    IN  <<s, s, (v \div 65536) % 65536, v % 65536>>

(* static_cast<int32_t>(int64_t): the low 32 bits, as a signed number *)
Int64ToInt32(w) == ToInt16(w[3]) * 65536 + w[4]

----------------------------------------------------------------------------
(* Tag, NamedTag and the containers of tag.hpp.                            *)

(* Tag(): m_type is TAG_End and the std::variant member, left to its       *)
(* default constructor, holds its first alternative value-initialised: a   *)
(* Byte of 0                                                               *)
Tag_End == [type |-> TAG_End, content_type |-> TAG_End, value |-> 0]

(* the one-argument constructors Tag(Byte) .. Tag(LongArray) *)
Tag(type, value) == [type |-> type, content_type |-> TAG_End, value |-> value]

(* Tag(List value, TagType content_type) *)
Tag_List(value, content_type) ==
    [type |-> TAG_List, content_type |-> content_type, value |-> value]

(* the alternative the std::variant member of a tag holds, named by the    *)
(* TagType of the constructor that stores it                               *)
VariantHolds(t) == IF t.type = TAG_End THEN TAG_Byte ELSE t.type

(* std::get<T>(value), T named by its TagType: the value held if the       *)
(* variant holds a T, else std::bad_variant_access is thrown               *)
std_get(t, T) ==
    IF VariantHolds(t) = T
    THEN [status |-> "ok", accessor |-> T, value |-> t.value]
    ELSE [status |-> "bad_variant_access", accessor |-> T, value |-> 0]

byte_value(t) == std_get(t, TAG_Byte)

short_value(t) == std_get(t, TAG_Short)

int_value(t) == std_get(t, TAG_Int)

long_value(t) == std_get(t, TAG_Long)

float_value(t) == std_get(t, TAG_Float)

double_value(t) == std_get(t, TAG_Double)

byte_array_value(t) == std_get(t, TAG_Byte_Array)

string_value(t) == std_get(t, TAG_String)

list_value(t) == std_get(t, TAG_List)

compound_value(t) == std_get(t, TAG_Compound)

int_array_value(t) == std_get(t, TAG_Int_Array)

long_array_value(t) == std_get(t, TAG_Long_Array)

(* a call of the typed accessor whose payload type is k *)
TypedAccessor(k, t) ==
    CASE k = TAG_Byte -> byte_value(t)
      [] k = TAG_Short -> short_value(t)
      [] k = TAG_Int -> int_value(t)
      [] k = TAG_Long -> long_value(t)
      [] k = TAG_Float -> float_value(t)
      [] k = TAG_Double -> double_value(t)
      [] k = TAG_Byte_Array -> byte_array_value(t)
      [] k = TAG_String -> string_value(t)
      [] k = TAG_List -> list_value(t)
      [] k = TAG_Compound -> compound_value(t)
      [] k = TAG_Int_Array -> int_array_value(t)
      [] k = TAG_Long_Array -> long_array_value(t)

(* NamedTag{tag, name}; NamedTag{} holds a default Tag and an empty name *)
NamedTag(tag, name) == [tag |-> tag, name |-> name]

NamedTag_Empty == NamedTag(Tag_End, <<>>)

(* QString::operator< : code units compared lexicographically *)
QStringLess(a, b) ==
    \E i \in 1..(Min(Len(a), Len(b)) + 1) :
        /\ \A j \in 1..(i - 1) : a[j] = b[j]
        /\ i <= Len(b)
        /\ (i <= Len(a) => a[i] < b[i])

(* Compound(): an empty QMap *)
Compound_Empty == <<>>

(* QMap::operator[](key) = value: the node of key is overwritten if there  *)
(* is one, else a node is inserted at the key's place in key order.        *)
QMapAssign(m, key, value) ==
    IF \E i \in DOMAIN m : m[i].key = key
    THEN [i \in DOMAIN m |->
            IF m[i].key = key THEN [key |-> key, value |-> value] ELSE m[i]]
    ELSE LET n == Cardinality({i \in DOMAIN m : QStringLess(m[i].key, key)})
         IN  SubSeq(m, 1, n) \o <<[key |-> key, value |-> value]>>
                \o SubSeq(m, n + 1, Len(m))

----------------------------------------------------------------------------
(* QString::fromUtf8 and QString::toUtf8.                                  *)

IsCont(b) == b >= 128 /\ b <= 191

RECURSIVE Utf8Decode(_, _)
Utf8Decode(b, i) ==
    IF i > Len(b) THEN <<>>
    ELSE LET c == b[i]
             n == Len(b)
         IN  IF c < 128 THEN <<c>> \o Utf8Decode(b, i + 1)
             ELSE IF c >= 194 /\ c <= 223 /\ i + 1 <= n /\ IsCont(b[i + 1])
             THEN <<(c - 192) * 64 + (b[i + 1] - 128)>> \o Utf8Decode(b, i + 2)
             ELSE IF /\ c >= 224 /\ c <= 239 /\ i + 2 <= n
                     /\ IsCont(b[i + 1]) /\ IsCont(b[i + 2])
                     /\ (c = 224 => b[i + 1] >= 160)
                     /\ (c = 237 => b[i + 1] <= 159)
             THEN <<(c - 224) * 4096 + (b[i + 1] - 128) * 64 + (b[i + 2] - 128)>>
                    \o Utf8Decode(b, i + 3)
             ELSE IF /\ c >= 240 /\ c <= 244 /\ i + 3 <= n
                     /\ IsCont(b[i + 1]) /\ IsCont(b[i + 2]) /\ IsCont(b[i + 3])
                     /\ (c = 240 => b[i + 1] >= 144)
                     /\ (c = 244 => b[i + 1] <= 143)
             THEN LET cp == (c - 240) * 262144 + (b[i + 1] - 128) * 4096
                              + (b[i + 2] - 128) * 64 + (b[i + 3] - 128) - 65536
                  IN  <<55296 + (cp \div 1024), 56320 + (cp % 1024)>>
                         \o Utf8Decode(b, i + 4)
             ELSE <<65533>> \o Utf8Decode(b, i + 1)

(* QString::fromUtf8(QByteArray): a run of ASCII bytes is taken as it is   *)
fromUtf8(b) ==
    IF \A i \in DOMAIN b : b[i] < 128 THEN [i \in 1..Len(b) |-> b[i]]
    ELSE Utf8Decode(b, 1)

RECURSIVE Utf8Encode(_, _)
Utf8Encode(s, i) ==
    IF i > Len(s) THEN <<>>
    ELSE LET u == s[i]
         IN  IF u < 128 THEN <<u>> \o Utf8Encode(s, i + 1)
             ELSE IF u < 2048
             THEN <<192 + (u \div 64), 128 + (u % 64)>> \o Utf8Encode(s, i + 1)
             ELSE IF /\ u >= 55296 /\ u <= 56319 /\ i + 1 <= Len(s)
                     /\ s[i + 1] >= 56320 /\ s[i + 1] <= 57343
             THEN LET cp == 65536 + (u - 55296) * 1024 + (s[i + 1] - 56320)
                  IN  <<240 + (cp \div 262144), 128 + ((cp \div 4096) % 64),
                        128 + ((cp \div 64) % 64), 128 + (cp % 64)>>
                         \o Utf8Encode(s, i + 2)
             ELSE IF u >= 55296 /\ u <= 57343
             THEN <<63>> \o Utf8Encode(s, i + 1)
             ELSE <<224 + (u \div 4096), 128 + ((u \div 64) % 64), 128 + (u % 64)>>
                    \o Utf8Encode(s, i + 1)

(* QString::toUtf8() *)
toUtf8(s) ==
    IF \A i \in DOMAIN s : s[i] < 128 THEN [i \in 1..Len(s) |-> s[i]]
    ELSE Utf8Encode(s, 1)

----------------------------------------------------------------------------
(* The read primitives of binary.cpp, as functions of the device's bytes f *)
(* and its read position p (the number of bytes already consumed).  Each   *)
(* yields the thrown IOError's message in err ("" when nothing is thrown), *)
(* the value returned and the position the device is left at.              *)

Rd(err, val, pos) == [err |-> err, val |-> val, pos |-> pos]

(* QIODevice::read(maxSize): at most maxSize bytes, none when maxSize < 0  *)
DeviceRead(f, p, maxSize) ==
    IF maxSize <= 0 THEN <<>> ELSE SubSeq(f, p + 1, Min(p + maxSize, Len(f)))

(* read_byte without its atEnd() test: a zero byte at the end of the device *)
read_byte_no_eof(f, p) ==
    IF p >= Len(f) THEN Rd("", 0, p)
    ELSE Rd("", ToInt8(f[p + 1]), p + 1)

read_byte(f, p) ==
    IF p >= Len(f) THEN Rd("EOF", 0, p)
    ELSE Rd("", ToInt8(f[p + 1]), p + 1)

read_short(f, p) ==
    LET bytes == DeviceRead(f, p, 2)
    IN  IF Len(bytes) # 2 THEN Rd("EOF", 0, p + Len(bytes))
        ELSE Rd("", ToInt16(bytes[1] * 256 + bytes[2]), p + 2)

(* (bytes[0] << 24) + ... as a 32-bit int: the top byte carries the sign *)
read_int(f, p) ==
    LET bytes == DeviceRead(f, p, 4)
    IN  IF Len(bytes) # 4 THEN Rd("EOF", 0, p + Len(bytes))
        ELSE Rd("", ToInt8(bytes[1]) * 16777216 + bytes[2] * 65536
                        + bytes[3] * 256 + bytes[4], p + 4)

(* the 64-bit sum of the shifted bytes, then static_cast<int32_t>, then    *)
(* the conversion to the int64_t the function returns                      *)
read_long(f, p) ==
    LET bytes == DeviceRead(f, p, 8)
        sum == <<bytes[1] * 256 + bytes[2], bytes[3] * 256 + bytes[4],
                 bytes[5] * 256 + bytes[6], bytes[7] * 256 + bytes[8]>>
    IN  IF Len(bytes) # 8 THEN Rd("EOF", <<0, 0, 0, 0>>, p + Len(bytes))
        ELSE Rd("", Int32ToInt64(Int64ToInt32(sum)), p + 8)

(* memcpy(&dst, &src, sizeof(src)): the bit pattern is the value *)
read_float(f, p) == read_int(f, p)

read_double(f, p) == read_long(f, p)

(* read_tag_type with id > TAG_ID_COUNT for id >= TAG_ID_COUNT *)
read_tag_type_off_by_one(f, p) ==
    LET id == read_byte(f, p)
    IN  IF id.err # "" THEN id
        ELSE IF id.val < 0 \/ id.val > TAG_ID_COUNT
        THEN Rd("Invalid tag ID", id.val, id.pos)
        ELSE id

read_tag_type(f, p) ==
    LET id == read_byte(f, p)
    IN  IF id.err # "" THEN id
        ELSE IF id.val < 0 \/ id.val >= TAG_ID_COUNT
        THEN Rd("Invalid tag ID", id.val, id.pos)
        ELSE id

(* read_bytes asking the device for one byte more than length *)
read_bytes_one_more(f, p, length) ==
    LET result == DeviceRead(f, p, length + 1)
    IN  IF Len(result) < length THEN Rd("EOF", <<>>, p + Len(result))
        ELSE Rd("", SubSeq(result, 1, length), p + Len(result))

read_bytes(f, p, length) ==
    LET result == DeviceRead(f, p, length)
    IN  IF Len(result) # length THEN Rd("EOF", <<>>, p + Len(result))
        ELSE Rd("", result, p + Len(result))

read_string(f, p) ==
    LET length == read_short(f, p)
    IN  IF length.err # "" THEN Rd(length.err, <<>>, length.pos)
        ELSE LET bytes == read_bytes(f, length.pos, ToUInt16(length.val))
             IN  IF bytes.err # "" THEN bytes
                 ELSE Rd("", fromUtf8(bytes.val), bytes.pos)

----------------------------------------------------------------------------
(* The write primitives of binary.cpp.  A call yields the sequence of the  *)
(* device writes it issues, each with the bytes handed to the device and   *)
(* whether the code looks at what the device answers, and the message      *)
(* of the IOError it throws ("" when it returns normally).                 *)

Wr(ops, err) == [ops |-> ops, err |-> err]

(* a; b: the writes of a, then those of b unless a threw *)
Then(a, b) == IF a.err # "" THEN a ELSE Wr(a.ops \o b.ops, b.err)

(* file.putChar(value), its result tested *)
write_byte(value) ==
    Wr(<<[fn |-> "putChar", bytes |-> <<ToChar(value)>>, checked |-> TRUE]>>, "")

(* write_short with the least significant byte first *)
write_short_little_endian(value) ==
    Wr(<<[fn |-> "write",
          bytes |-> <<ToChar(value), ToChar(value \div 256)>>,
          checked |-> FALSE]>>, "")

(* file.write(result), its result dropped *)
write_short(value) ==
    Wr(<<[fn |-> "write",
          bytes |-> <<ToChar(value \div 256), ToChar(value)>>,
          checked |-> FALSE]>>, "")

(* write_int with the least significant byte first *)
write_int_little_endian(value) ==
    Wr(<<[fn |-> "write",
          bytes |-> <<ToChar(value), ToChar(value \div 256),
                      ToChar(value \div 65536), ToChar(value \div 16777216)>>,
          checked |-> FALSE]>>, "")

write_int(value) ==
    Wr(<<[fn |-> "write",
          bytes |-> <<ToChar(value \div 16777216), ToChar(value \div 65536),
                      ToChar(value \div 256), ToChar(value)>>,
          checked |-> FALSE]>>, "")

(* value >> 56 .. value >> 0 on the four 16-bit words of value *)
write_long(value) ==
    Wr(<<[fn |-> "write",
          bytes |-> <<ToChar(value[1] \div 256), ToChar(value[1]),
                      ToChar(value[2] \div 256), ToChar(value[2]),
                      ToChar(value[3] \div 256), ToChar(value[3]),
                      ToChar(value[4] \div 256), ToChar(value[4])>>,
          checked |-> FALSE]>>, "")

write_float(value) == write_int(value)

write_double(value) == write_long(value)

(* file.write(value) != value.length() throws *)
write_bytes(value) ==
    Wr(<<[fn |-> "write", bytes |-> value, checked |-> TRUE]>>, "")

(* numeric_cast<To>(value), To given by its signedness and its limits:     *)
(* <<has_value, value>>                                                    *)
numeric_cast(value, is_signed, lo, hi) ==
    IF ~is_signed /\ value < 0 THEN <<FALSE, 0>>
    ELSE IF value > hi THEN <<FALSE, 0>>
    ELSE IF value < lo THEN <<FALSE, 0>>
    ELSE <<TRUE, value>>

write_string(value) ==
    LET bytes == toUtf8(value)
        length == numeric_cast(Len(bytes), TRUE, INT16_MIN, INT16_MAX)
    IN  IF ~length[1] THEN Wr(<<>>, "String too long")
        ELSE Then(write_short(length[2]), write_bytes(bytes))

(* QList<int8_t> handed to write_bytes: each element as a char *)
ByteArrayChars(value) == [i \in 1..Len(value) |-> ToChar(value[i])]

RECURSIVE write_payload(_, _), write_named(_, _), write_items(_, _, _),
          write_entries(_, _, _), write_ints(_, _), write_longs(_, _)

(* for (const Tag &tag : value.list_value()) write_payload(file, tag, depth + 1) *)
write_items(list, i, depth) ==
    IF i > Len(list) THEN Wr(<<>>, "")
    ELSE Then(write_payload(list[i], depth + 1), write_items(list, i + 1, depth))

(* for (iter = cbegin(); iter != cend(); ++iter)                           *)
(*     write_named(file, NamedTag{iter.value(), iter.key()}, depth + 1)    *)
write_entries(map, i, depth) ==
    IF i > Len(map) THEN Wr(<<>>, "")
    ELSE Then(write_named(NamedTag(map[i].value, map[i].key), depth + 1),
              write_entries(map, i + 1, depth))

write_ints(array, i) ==
    IF i > Len(array) THEN Wr(<<>>, "")
    ELSE Then(write_int(array[i]), write_ints(array, i + 1))

write_longs(array, i) ==
    IF i > Len(array) THEN Wr(<<>>, "")
    ELSE Then(write_long(array[i]), write_longs(array, i + 1))

write_payload(value, depth) ==
    CASE value.type = TAG_End -> Wr(<<>>, "")
      [] value.type = TAG_Byte -> write_byte(value.value)
      [] value.type = TAG_Short -> write_short(value.value)
      [] value.type = TAG_Int -> write_int(value.value)
      [] value.type = TAG_Long -> write_long(value.value)
      [] value.type = TAG_Float -> write_float(value.value)
      [] value.type = TAG_Double -> write_double(value.value)
      [] value.type = TAG_Byte_Array ->
            Then(write_int(Len(value.value)),
                 write_bytes(ByteArrayChars(value.value)))
      [] value.type = TAG_String -> write_string(value.value)
      [] value.type = TAG_List ->
            Then(write_byte(value.content_type),
                 Then(write_int(Len(value.value)),
                      write_items(value.value, 1, depth)))
      [] value.type = TAG_Compound ->
            Then(write_entries(value.value, 1, depth), write_byte(TAG_End))
      [] value.type = TAG_Int_Array ->
            Then(write_int(Len(value.value)), write_ints(value.value, 1))
      [] value.type = TAG_Long_Array ->
            Then(write_int(Len(value.value)), write_longs(value.value, 1))
      [] OTHER -> Wr(<<>>, "Unknown tag ID")

(* write_named without its return after the kind byte of an End tag *)
write_named_end_with_name(value, depth) ==
    Then(write_byte(value.tag.type),
         Then(write_string(value.name), write_payload(value.tag, depth)))

write_named(value, depth) ==
    IF value.tag.type = TAG_End THEN write_byte(value.tag.type)
    ELSE Then(write_byte(value.tag.type),
              Then(write_string(value.name), write_payload(value.tag, depth)))

write_unnamed(value, depth) ==
    Then(write_byte(value.type), write_payload(value, depth))

(* the bytes a device that accepts every write ends up holding *)
RECURSIVE Written(_, _)
Written(ops, i) ==
    IF i > Len(ops) THEN <<>> ELSE ops[i].bytes \o Written(ops, i + 1)

----------------------------------------------------------------------------
(* Bounds of the model and the bytes the environment offers.               *)

(* the longest stream the environment supplies *)
MaxStream == 16

(* the longest stream of the deep-nesting environments *)
DeepStream == 8300

(* the most elements a decode loop is followed for *)
MaxElems == 4

(* kind bytes: every valid kind, and invalid ones on both sides of zero *)
KindBytes == (0..TAG_ID_COUNT) \cup {127, 128, 255}

(* names, as the UTF-8 bytes on the wire: "", "a", "b" *)
NameSamples == {<<>>, <<97>>, <<98>>}

(* 32-bit counts: 0, 1, 2 and -1 *)
CountChunks == {<<0, 0, 0, 0>>, <<0, 0, 0, 1>>, <<0, 0, 0, 2>>,
                <<255, 255, 255, 255>>}

ByteChunks == {<<1>>, <<128>>}

ShortChunks == {<<0, 1>>, <<128, 0>>}

(* 42, a NaN pattern, -0.0f (INT_MIN), -1 *)
IntChunks == {<<0, 0, 0, 42>>, <<127, 192, 0, 1>>, <<128, 0, 0, 0>>,
              <<255, 255, 255, 255>>}

(* 42, 2^32, -1, INT64_MIN (-0.0), 2^31, a NaN pattern *)
LongChunks == {<<0, 0, 0, 0, 0, 0, 0, 42>>, <<0, 0, 0, 1, 0, 0, 0, 0>>,
               <<255, 255, 255, 255, 255, 255, 255, 255>>,
               <<128, 0, 0, 0, 0, 0, 0, 0>>, <<0, 0, 0, 0, 128, 0, 0, 0>>,
               <<127, 248, 0, 0, 0, 0, 0, 1>>}

(* string payloads with their length prefix: "", "hi", "e-acute" *)
StringChunks == {<<0, 0>>, <<0, 2, 104, 105>>, <<0, 2, 195, 169>>}

(* byte arrays with their count: none, two bytes, a count of -1 *)
ByteArrayChunks == {<<0, 0, 0, 0>>, <<0, 0, 0, 2, 1, 255>>,
                    <<255, 255, 255, 255>>}

(* the 16-bit big-endian length prefix of a name, then the name *)
NameChunk(n) == <<Len(n) \div 256, Len(n) % 256>> \o n

(* An environment: the kind bytes offered where a named tag starts, the    *)
(* kind bytes offered as a list's element kind, the names, the counts and  *)
(* the length the stream may reach.                                        *)
EnvSmall ==
    [kinds |-> KindBytes, items |-> KindBytes, names |-> NameSamples,
     counts |-> CountChunks, max |-> MaxStream]

(* only compounds inside compounds *)
EnvDeepCompound ==
    [kinds |-> {TAG_Compound}, items |-> {}, names |-> {<<>>},
     counts |-> {}, max |-> DeepStream]

(* only lists inside lists *)
EnvDeepList ==
    [kinds |-> {TAG_List}, items |-> {TAG_List}, names |-> {<<>>},
     counts |-> {<<0, 0, 0, 1>>}, max |-> DeepStream]

(* lists of compounds that each hold one list *)
EnvDeepMixed ==
    [kinds |-> {TAG_List}, items |-> {TAG_Compound}, names |-> {<<>>},
     counts |-> {<<0, 0, 0, 1>>}, max |-> DeepStream]

----------------------------------------------------------------------------
(* The in-memory trees a program hands to write_named_binary.              *)

INT32_MIN == -2147483647 - 1

ScalarTags ==
    {Tag(TAG_Byte, v) : v \in {1, -128}}
    \cup {Tag(TAG_Short, v) : v \in {1, -32768}}
    \cup {Tag(TAG_Int, v) : v \in {42, -1}}
    \cup {Tag(TAG_Long, v) : v \in {<<0, 0, 0, 42>>, <<0, 1, 0, 0>>,
                                    <<65535, 65535, 65535, 65535>>}}
    \cup {Tag(TAG_Float, v) : v \in {2143289345, INT32_MIN}}
    \cup {Tag(TAG_Double, v) : v \in {<<32760, 0, 0, 1>>, <<32768, 0, 0, 0>>}}

ArrayTags ==
    {Tag(TAG_Byte_Array, v) : v \in {<<>>, <<1, -1>>}}
    \cup {Tag(TAG_String, v) : v \in {<<>>, <<104, 105>>, <<233>>}}
    \cup {Tag(TAG_Int_Array, v) : v \in {<<>>, <<42, -1>>}}
    \cup {Tag(TAG_Long_Array, v) :
            v \in {<<>>, << <<0, 0, 0, 42>>, <<0, 1, 0, 0>> >>}}

LeafTags == ScalarTags \cup ArrayTags

(* homogeneous lists: every element's type is the list's content type *)
ListTags ==
    {Tag_List(<<>>, k) : k \in 0..TAG_Long_Array}
    \cup {Tag_List(<<a>>, a.type) : a \in LeafTags}
    \cup {Tag_List(<<q[1], q[2]>>, q[1].type) :
            q \in {r \in LeafTags \X LeafTags : r[1].type = r[2].type}}

EntryNames == {<<97>>, <<98>>}

CompoundOf1(n, t) == Tag(TAG_Compound, QMapAssign(Compound_Empty, n, t))

CompoundOf2(t, u) ==
    Tag(TAG_Compound, QMapAssign(QMapAssign(Compound_Empty, <<98>>, t), <<97>>, u))

CompoundTags ==
    {Tag(TAG_Compound, Compound_Empty)}
    \cup {CompoundOf1(n, t) : n \in EntryNames, t \in LeafTags}
    \cup {CompoundOf2(t, u) : t \in LeafTags, u \in ScalarTags}

NestedTags ==
    {Tag_List(<<c>>, TAG_Compound) : c \in {CompoundOf1(<<97>>, t) : t \in ScalarTags}}
    \cup {Tag_List(<<l>>, TAG_List) : l \in {Tag_List(<<a>>, a.type) : a \in ScalarTags}}
    \cup {CompoundOf1(<<97>>, l) : l \in {Tag_List(<<a>>, a.type) : a \in ScalarTags}}
    \cup {CompoundOf1(<<97>>, CompoundOf1(<<98>>, t)) : t \in ScalarTags}

RootNames == {<<>>, <<114>>}

(* float bit patterns: 0.0, 1.0, -0.0, the infinities, quiet and           *)
(* signalling NaNs with payloads, a denormal, -1                           *)
FloatPatterns ==
    {0, 1065353216, INT32_MIN, 2139095040, -8388608, 2143289344,
     2143289345, 2139095041, -4194304, 1, -1}

(* a string of n letters "a" *)
Fill(n) == [i \in 1..n |-> 97]

(* string lengths on both sides of the 15-bit and of the 16-bit limit *)
LongLengths == {32767, 32768, 65535, 65536}

LongStringTrees ==
    {NamedTag(Tag(TAG_String, Fill(n)), <<>>) : n \in LongLengths}
    \cup {NamedTag(Tag(TAG_Byte, 1), Fill(n)) : n \in LongLengths}

(* a Compound named "root" that was given an Int "x" = 42, then a String   *)
(* "y" = "hi"                                                              *)
ScenarioA ==
    NamedTag(Tag(TAG_Compound,
                 QMapAssign(QMapAssign(Compound_Empty, <<120>>, Tag(TAG_Int, 42)),
                            <<121>>, Tag(TAG_String, <<104, 105>>))),
             <<114, 111, 111, 116>>)

(* the tags a program constructs to append to and to read with accessors *)
TagSamples == {Tag_End} \cup LeafTags \cup ListTags \cup CompoundTags

(* the tags a program appends to a list *)
AppendSamples == {Tag(TAG_Byte, 1), Tag(TAG_Int, 42), Tag_End}

SampleTrees ==
    {NamedTag(t, n) :
        t \in LeafTags \cup ListTags \cup CompoundTags \cup NestedTags,
        n \in RootNames}
    \cup {NamedTag(Tag(TAG_Float, v), <<>>) : v \in FloatPatterns}
    \cup LongStringTrees
    \cup {NamedTag_Empty, NamedTag(Tag_End, <<114>>), ScenarioA}

----------------------------------------------------------------------------
(* The state.                                                              *)

VARIABLES
    file,       \* the bytes of the input QIODevice
    pos,        \* its read position
    streaming,  \* TRUE while the environment still extends the device
    env,        \* which environment the device's bytes are drawn from
    ctl,        \* the call the reader is about to make or to return from
    stack,      \* the read_payload calls in progress, outermost first
    result,     \* what read_named_binary returned or threw
    tree,       \* the NamedTag the program built in memory, if it built one
    out,        \* what write_named_binary wrote and threw
    origin,     \* where the bytes of file come from ("tag": there is no file)
    got         \* what the last call of a typed accessor on tree.tag gave

vars == <<file, pos, streaming, env, ctl, stack, result, tree, out, origin, got>>

(* the environment of a state *)
Env ==
    CASE env = "small" -> EnvSmall
      [] env = "deep_compound" -> EnvDeepCompound
      [] env = "deep_list" -> EnvDeepList
      [] env = "deep_mixed" -> EnvDeepMixed

Idle == [op |-> "idle"]

NoResult == [status |-> "none", value |-> NamedTag_Empty, error |-> ""]

(* out: the bytes the output device took, the number of device writes the *)
(* call issued and which of them the device failed (0: none)               *)
NoOutput ==
    [status |-> "none", bytes |-> <<>>, error |-> "", issued |-> 0, fault |-> 0]

NoAccess == [status |-> "none", accessor |-> TAG_End, value |-> 0]

InitStream ==
    /\ file = <<>> /\ pos = 0 /\ streaming = TRUE
    /\ ctl = Idle /\ stack = <<>> /\ result = NoResult
    /\ tree = NamedTag_Empty /\ out = NoOutput /\ origin = "stream"
    /\ got = NoAccess

InitTree ==
    /\ file = <<>> /\ pos = 0 /\ streaming = FALSE
    /\ ctl = Idle /\ stack = <<>> /\ result = NoResult
    /\ tree \in SampleTrees /\ out = NoOutput /\ origin = "tree"
    /\ got = NoAccess

Init ==
    /\ env = "small"
    /\ (InitStream \/ InitTree)

InitDeep ==
    /\ env \in {"deep_compound", "deep_list", "deep_mixed"}
    /\ InitStream

(* a program that holds a tag it constructed and reads no device *)
InitTag ==
    /\ env = "small"
    /\ file = <<>> /\ pos = 0 /\ streaming = FALSE
    /\ ctl = Idle /\ stack = <<>> /\ result = NoResult
    /\ tree \in {NamedTag(t, <<>>) : t \in TagSamples}
    /\ out = NoOutput /\ origin = "tag" /\ got = NoAccess

----------------------------------------------------------------------------
(* The reader of binary.cpp as a machine: ctl is the call about to be made *)
(* or the value being returned, stack the read_payload calls of            *)
(* containers that wait for their elements.                                *)

Fail(err, p) == [err |-> err, pos |-> p, ctl |-> Idle, push |-> <<>>]

(* return {tag} from read_payload; a read_named caller pairs it with the   *)
(* name it read                                                            *)
Ret(p, tag, c) ==
    [err |-> "", pos |-> p,
     ctl |-> [op |-> "return", value |-> NamedTag(tag, c.name)],
     push |-> <<>>]

Scalar(r, c) ==
    IF r.err # "" THEN Fail(r.err, r.pos) ELSE Ret(r.pos, Tag(c.type, r.val), c)

(* read_named up to its call of read_payload *)
read_named(f, p, depth) ==
    LET type == read_tag_type(f, p)
    IN  IF type.err # "" THEN Fail(type.err, type.pos)
        ELSE IF type.val = TAG_End
        THEN [err |-> "", pos |-> type.pos,
              ctl |-> [op |-> "return", value |-> NamedTag_Empty],
              push |-> <<>>]
        ELSE LET name == read_string(f, type.pos)
             IN  IF name.err # "" THEN Fail(name.err, name.pos)
                 ELSE [err |-> "", pos |-> name.pos,
                       ctl |-> [op |-> "read_payload", type |-> type.val,
                                depth |-> depth, name |-> name.val],
                       push |-> <<>>]

(* read_payload up to the first iteration of a container's loop; c is the  *)
(* call: its type, its depth and the name its caller holds.                *)
(* QList::reserve(length) changes no value.                                *)
read_payload(f, p, c) ==
    IF c.depth > MAX_DEPTH THEN Fail("Max depth reached", p)
    ELSE CASE c.type = TAG_End -> Ret(p, Tag_End, c)
      [] c.type = TAG_Byte -> Scalar(read_byte(f, p), c)
      [] c.type = TAG_Short -> Scalar(read_short(f, p), c)
      [] c.type = TAG_Int -> Scalar(read_int(f, p), c)
      [] c.type = TAG_Long -> Scalar(read_long(f, p), c)
      [] c.type = TAG_Float -> Scalar(read_float(f, p), c)
      [] c.type = TAG_Double -> Scalar(read_double(f, p), c)
      [] c.type = TAG_Byte_Array ->
            LET length == read_int(f, p)
            IN  IF length.err # "" THEN Fail(length.err, length.pos)
                ELSE LET bytes == read_bytes(f, length.pos, length.val)
                     IN  IF bytes.err # "" THEN Fail(bytes.err, bytes.pos)
                         ELSE Ret(bytes.pos,
                                  Tag(TAG_Byte_Array,
                                      [i \in 1..Len(bytes.val) |->
                                            ToInt8(bytes.val[i])]), c)
      [] c.type = TAG_String -> Scalar(read_string(f, p), c)
      [] c.type = TAG_List ->
            LET item_type == read_tag_type(f, p)
            IN  IF item_type.err # "" THEN Fail(item_type.err, item_type.pos)
                ELSE LET length == read_int(f, item_type.pos)
                     IN  IF length.err # "" THEN Fail(length.err, length.pos)
                         ELSE [err |-> "", pos |-> length.pos,
                               ctl |-> [op |-> "loop"],
                               push |-> <<[fn |-> TAG_List,
                                           item_type |-> item_type.val,
                                           length |-> length.val,
                                           result |-> Tag_List(<<>>, item_type.val),
                                           depth |-> c.depth,
                                           name |-> c.name]>>]
      [] c.type = TAG_Compound ->
            [err |-> "", pos |-> p,
             ctl |-> [op |-> "read_named", depth |-> c.depth],
             push |-> <<[fn |-> TAG_Compound,
                         result |-> Tag(TAG_Compound, Compound_Empty),
                         depth |-> c.depth,
                         name |-> c.name]>>]
      [] c.type \in {TAG_Int_Array, TAG_Long_Array} ->
            LET length == read_int(f, p)
            IN  IF length.err # "" THEN Fail(length.err, length.pos)
                ELSE [err |-> "", pos |-> length.pos,
                      ctl |-> [op |-> "loop"],
                      push |-> <<[fn |-> c.type,
                                  length |-> length.val,
                                  result |-> Tag(c.type, <<>>),
                                  depth |-> c.depth,
                                  name |-> c.name]>>]
      [] OTHER -> Fail("Unknown tag ID", p)

(* The device.  While streaming, the environment appends the chunk a step  *)
(* reads: a step is taken only with a chunk it consumes whole and that     *)
(* holds all the bytes it asks for (more bytes would change nothing).      *)

Pad == <<0, 0, 0, 0, 0, 0, 0, 0>>

Offered(S) == IF streaming THEN S \cup {<<>>} ELSE {<<>>}

Feed(chunk) == IF streaming THEN file \o chunk ELSE file

Fits(f, r, padded) ==
    streaming =>
        /\ Len(f) <= Env.max
        /\ r.pos = Len(f)
        /\ r.err = padded.err /\ r.pos = padded.pos

NamedChunks ==
    {<<k>> : k \in Env.kinds}
    \cup {<<k>> \o NameChunk(n) : k \in Env.kinds, n \in Env.names}

ListChunks ==
    {<<k>> : k \in Env.items}
    \cup {<<k>> \o n : k \in Env.items, n \in Env.counts}

PayloadChunks(type) ==
    CASE type = TAG_Byte -> ByteChunks
      [] type = TAG_Short -> ShortChunks
      [] type \in {TAG_Int, TAG_Float} -> IntChunks
      [] type \in {TAG_Long, TAG_Double} -> LongChunks
      [] type = TAG_Byte_Array -> ByteArrayChunks
      [] type = TAG_String -> StringChunks
      [] type = TAG_List -> ListChunks
      [] type \in {TAG_Int_Array, TAG_Long_Array} -> Env.counts
      [] OTHER -> {}

Top == stack[Len(stack)]

Pop == SubSeq(stack, 1, Len(stack) - 1)

Reader(f, p, c, s, res) ==
    /\ file' = f /\ pos' = p /\ ctl' = c /\ stack' = s /\ result' = res
    /\ UNCHANGED <<streaming, env, tree, out, origin, got>>

(* an IOError leaves read_named_binary: every call in progress is unwound *)
Throw(f, p, message) ==
    Reader(f, p, Idle, <<>>,
           [status |-> "error", value |-> NamedTag_Empty, error |-> message])

Stepped(f, r) ==
    IF r.err # "" THEN Throw(f, r.pos, r.err)
    ELSE Reader(f, r.pos, r.ctl, stack \o r.push, result)

(* NamedTag read_named_binary(QIODevice &file) *)
ReadNamedBinary ==
    /\ ctl.op = "idle" /\ result.status = "none"
    /\ \/ origin \in {"stream", "truncated"}
       \/ origin = "written" /\ out.status = "ok"
    /\ Reader(file, pos, [op |-> "read_named", depth |-> 0], stack, result)

ReadNamed ==
    /\ ctl.op = "read_named"
    /\ \E chunk \in Offered(NamedChunks) :
        LET f == Feed(chunk)
            r == read_named(f, pos, ctl.depth)
        IN  /\ Fits(f, r, read_named(f \o Pad, pos, ctl.depth))
            /\ Stepped(f, r)

ReadPayload ==
    /\ ctl.op = "read_payload"
    /\ \E chunk \in Offered(PayloadChunks(ctl.type)) :
        LET f == Feed(chunk)
            r == read_payload(f, pos, ctl)
        IN  /\ Fits(f, r, read_payload(f \o Pad, pos, ctl))
            /\ Stepped(f, r)

(* ListLoop returning an empty list with the element kind End, as a       *)
(* reader that takes the kind from the elements would                      *)
ListLoopKindOfElements ==
    /\ ctl.op = "loop" /\ Top.fn = TAG_List
    /\ (Top.length = 0 \/ Len(Top.result.value) < MaxElems)
    /\ IF Top.length # 0
       THEN Reader(file, pos,
                   [op |-> "read_payload", type |-> Top.item_type,
                    depth |-> Top.depth + 1, name |-> <<>>],
                   [stack EXCEPT ![Len(stack)].length = @ - 1], result)
       ELSE Reader(file, pos,
                   [op |-> "return",
                    value |-> NamedTag(IF Top.result.value = <<>>
                                       THEN Tag_List(<<>>, TAG_End)
                                       ELSE Top.result, Top.name)],
                   Pop, result)

(* ListLoop reading the elements at the list's own depth, as the Compound *)
(* case reads its entries                                                  *)
ListLoopSameDepth ==
    /\ ctl.op = "loop" /\ Top.fn = TAG_List
    /\ (Top.length = 0 \/ Len(Top.result.value) < MaxElems)
    /\ IF Top.length # 0
       THEN Reader(file, pos,
                   [op |-> "read_payload", type |-> Top.item_type,
                    depth |-> Top.depth, name |-> <<>>],
                   [stack EXCEPT ![Len(stack)].length = @ - 1], result)
       ELSE Reader(file, pos,
                   [op |-> "return", value |-> NamedTag(Top.result, Top.name)],
                   Pop, result)

(* while (length-- != 0) result.list_value().append(read_payload(...)) *)
ListLoop ==
    /\ ctl.op = "loop" /\ Top.fn = TAG_List
    /\ (Top.length = 0 \/ Len(Top.result.value) < MaxElems)
    /\ IF Top.length # 0
       THEN Reader(file, pos,
                   [op |-> "read_payload", type |-> Top.item_type,
                    depth |-> Top.depth + 1, name |-> <<>>],
                   [stack EXCEPT ![Len(stack)].length = @ - 1], result)
       ELSE Reader(file, pos,
                   [op |-> "return", value |-> NamedTag(Top.result, Top.name)],
                   Pop, result)

(* ReturnToList assigning the element to the list instead of appending it *)
ReturnToListKeepsLast ==
    /\ ctl.op = "return" /\ stack # <<>> /\ Top.fn = TAG_List
    /\ Reader(file, pos, [op |-> "loop"],
              [stack EXCEPT ![Len(stack)].result.value = <<ctl.value.tag>>],
              result)

(* the append of the element read_payload returned *)
ReturnToList ==
    /\ ctl.op = "return" /\ stack # <<>> /\ Top.fn = TAG_List
    /\ Reader(file, pos, [op |-> "loop"],
              [stack EXCEPT ![Len(stack)].result.value = Append(@, ctl.value.tag)],
              result)

(* while (length-- != 0) result.int_array_value().append(read_int(file)),  *)
(* and the same with read_long                                            *)
ArrayLoop ==
    /\ ctl.op = "loop" /\ Top.fn \in {TAG_Int_Array, TAG_Long_Array}
    /\ (Top.length = 0 \/ Len(Top.result.value) < MaxElems)
    /\ IF Top.length # 0
       THEN \E chunk \in Offered(IntChunks \cup LongChunks) :
              LET f == Feed(chunk)
                  item(g) == IF Top.fn = TAG_Int_Array THEN read_int(g, pos)
                             ELSE read_long(g, pos)
                  r == item(f)
              IN  /\ Fits(f, r, item(f \o Pad))
                  /\ IF r.err # "" THEN Throw(f, r.pos, r.err)
                     ELSE Reader(f, r.pos, ctl,
                                 [stack EXCEPT
                                    ![Len(stack)].length = @ - 1,
                                    ![Len(stack)].result.value = Append(@, r.val)],
                                 result)
       ELSE Reader(file, pos,
                   [op |-> "return", value |-> NamedTag(Top.result, Top.name)],
                   Pop, result)

(* while ((item = read_named(file, depth)).tag.type() != TAG_End)          *)
(*     result.compound_value()[item.name] = item.tag;                      *)
ReturnToCompound ==
    /\ ctl.op = "return" /\ stack # <<>> /\ Top.fn = TAG_Compound
    /\ IF ctl.value.tag.type # TAG_End
       THEN Reader(file, pos, [op |-> "read_named", depth |-> Top.depth],
                   [stack EXCEPT ![Len(stack)].result.value =
                        QMapAssign(@, ctl.value.name, ctl.value.tag)],
                   result)
       ELSE Reader(file, pos,
                   [op |-> "return", value |-> NamedTag(Top.result, Top.name)],
                   Pop, result)

(* read_named_binary returns *)
ReturnRoot ==
    /\ ctl.op = "return" /\ stack = <<>>
    /\ Reader(file, pos, Idle, stack,
              [status |-> "ok", value |-> ctl.value, error |-> ""])

----------------------------------------------------------------------------
(* The writer, and the programs around the two calls.                      *)

write_named_binary(tag) == write_named(tag, 0)

Output(w) ==
    [status |-> IF w.err = "" THEN "ok" ELSE "error",
     bytes |-> Written(w.ops, 1), error |-> w.err,
     issued |-> Len(w.ops), fault |-> 0]

(* the ways a device write goes wrong: putChar returns false and write     *)
(* returns -1, or write takes fewer bytes than it was given                *)
FaultKinds == {"failed", "short"}

(* any write can fail; only a write of some bytes can be taken in part *)
CanFault(op, kind) ==
    kind = "failed" \/ (op.fn = "write" /\ Len(op.bytes) > 0)

(* the bytes the device takes of a write that goes wrong *)
Taken(op, kind) ==
    IF kind = "short" THEN SubSeq(op.bytes, 1, Len(op.bytes) - 1) ELSE <<>>

(* The call whose writes are w.ops on a device that fails the i-th of      *)
(* them: a write whose result the code tests throws                        *)
(* IOError(file.errorString()) there; after one whose result is dropped    *)
(* the call goes on, the device taking the later writes.                   *)
OutputFaulty(w, i, kind) ==
    LET op == w.ops[i]
        before == Written(SubSeq(w.ops, 1, i - 1), 1) \o Taken(op, kind)
    IN  IF op.checked
        THEN [status |-> "error", bytes |-> before, error |-> "errorString",
              issued |-> i, fault |-> i]
        ELSE [status |-> IF w.err = "" THEN "ok" ELSE "error",
              bytes |-> before \o Written(SubSeq(w.ops, i + 1, Len(w.ops)), 1),
              error |-> w.err, issued |-> Len(w.ops), fault |-> i]

(* the bytes that follow a written tree on its device: none, an End byte,  *)
(* the start of another tag                                                *)
Trailing == {<<>>, <<0>>, <<1, 0, 0, 7>>}

(* a program writes the tree it built; the device, with what may follow    *)
(* the tree on it, is then read back                                       *)
WriteTree ==
    /\ origin = "tree" /\ out.status = "none"
    /\ out' = Output(write_named_binary(tree))
    /\ \E x \in Trailing : file' = out'.bytes \o x
    /\ origin' = "written"
    /\ UNCHANGED <<pos, streaming, env, ctl, stack, result, tree, got>>

(* a program writes the tree it built to a device that fails one write *)
WriteFaulty ==
    /\ origin = "tree" /\ out.status = "none"
    /\ \E w \in {write_named_binary(tree)} :
            \E i \in 1..Len(w.ops), kind \in FaultKinds :
                /\ CanFault(w.ops[i], kind)
                /\ out' = OutputFaulty(w, i, kind)
    /\ origin' = "faulted"
    /\ UNCHANGED <<file, pos, streaming, env, ctl, stack, result, tree, got>>

(* main.cpp: nbt = read_named_binary(file); write_named_binary(out, nbt) *)
WriteBack ==
    /\ origin = "stream" /\ result.status = "ok" /\ out.status = "none"
    /\ out' = Output(write_named_binary(result.value))
    /\ UNCHANGED <<file, pos, streaming, env, ctl, stack, result, tree, origin,
                   got>>

(* a stream that was read to its end is cut one byte short, to be read again *)
Truncate ==
    /\ origin \in {"stream", "written"}
    /\ result.status = "ok" /\ ctl.op = "idle"
    /\ pos = Len(file) /\ Len(file) > 0
    /\ file' = SubSeq(file, 1, Len(file) - 1)
    /\ pos' = 0 /\ streaming' = FALSE /\ origin' = "truncated"
    /\ result' = NoResult /\ out' = NoOutput
    /\ UNCHANGED <<env, ctl, stack, tree, got>>

Next ==
    \/ ReadNamedBinary \/ ReadNamed \/ ReadPayload
    \/ ListLoop \/ ReturnToList \/ ArrayLoop \/ ReturnToCompound \/ ReturnRoot
    \/ WriteTree \/ WriteFaulty \/ WriteBack \/ Truncate

Spec == Init /\ [][Next]_vars

(* tag.list_value().append(t): std::get<List> gives the QList of a List    *)
(* tag, and QList::append takes any Tag                                    *)
ListAppend ==
    /\ origin = "tag"
    /\ list_value(tree.tag).status = "ok"
    /\ Len(tree.tag.value) < MaxElems
    /\ \E t \in AppendSamples :
            tree' = [tree EXCEPT !.tag.value = Append(@, t)]
    /\ UNCHANGED <<file, pos, streaming, env, ctl, stack, result, out, origin,
                   got>>

(* a call of one of the typed accessors on the tag *)
Access ==
    /\ origin = "tag"
    /\ \E k \in TAG_Byte..TAG_Long_Array : got' = TypedAccessor(k, tree.tag)
    /\ UNCHANGED <<file, pos, streaming, env, ctl, stack, result, tree, out,
                   origin>>

NextTag == ListAppend \/ Access

SpecTag == InitTag /\ [][NextTag]_vars

(* the steps an environment of nothing but nested containers enables *)
NextDeep == ReadNamedBinary \/ ReadNamed \/ ReadPayload \/ ListLoop

SpecDeep == InitDeep /\ [][NextDeep]_vars

----------------------------------------------------------------------------
(* Properties.                                                             *)

(* a tree the format can carry: strings and names within the 16-bit wire   *)
(* length, lists homogeneous, no End tag inside a container                *)
RECURSIVE ValidTag(_)
ValidTag(t) ==
    CASE t.type = TAG_String -> Len(toUtf8(t.value)) <= 65535
      [] t.type = TAG_List ->
            \A i \in DOMAIN t.value :
                /\ t.value[i].type = t.content_type
                /\ t.value[i].type # TAG_End
                /\ ValidTag(t.value[i])
      [] t.type = TAG_Compound ->
            \A i \in DOMAIN t.value :
                /\ Len(toUtf8(t.value[i].key)) <= 65535
                /\ t.value[i].value.type # TAG_End
                /\ ValidTag(t.value[i].value)
      [] OTHER -> TRUE

ValidTree(nt) == Len(toUtf8(nt.name)) <= 65535 /\ ValidTag(nt.tag)

(* the number of List and Compound payloads being decoded *)
Nesting == Cardinality({i \in DOMAIN stack : stack[i].fn \in {TAG_List, TAG_Compound}})

(* C1: a valid tree that is written and read back is read back equal: the  *)
(* write does not fail, and the read returns the tree that was written,    *)
(* root name, values, entries and elements included.  A root of kind End   *)
(* carries no name on the wire and is taken with the empty name.           *)
C1_RoundTrip ==
    (/\ origin = "written" /\ ValidTree(tree)
     /\ tree.tag.type = TAG_End => tree.name = <<>>) =>
        /\ out.status = "ok"
        /\ result.status # "none" =>
                (result.status = "ok" /\ result.value = tree)

(* C2: a stream that read_named_binary accepts is written back byte for    *)
(* byte by write_named_binary.                                             *)
C2_ReencodeExact ==
    (origin = "stream" /\ out.status # "none") =>
        (out.status = "ok" /\ out.bytes = file)

(* C3: the reader never has more List and Compound payloads in progress    *)
(* than the depths 0..MAX_DEPTH allow, whatever the mix of the two.        *)
C3_DepthBounded == Nesting <= MAX_DEPTH + 1

(* C4: no decode loop is entered with a negative count: the reader fails   *)
(* when it reads the count.                                                *)
C4_NegativeLengthRejected ==
    \A i \in DOMAIN stack :
        stack[i].fn \in {TAG_List, TAG_Int_Array, TAG_Long_Array} =>
            stack[i].length >= 0

(* the kind byte b, read where a named tag starts, is judged: a byte       *)
(* outside 0..12 ends the read with the invalid-kind error; End returns    *)
(* the empty tag; any other kind is the type of the payload read next      *)
NamedKindJudged(b) ==
    IF b \in 0..TAG_Long_Array
    THEN /\ result'.error # "Invalid tag ID"
         /\ b = TAG_End => (ctl'.op = "return" /\ ctl'.value = NamedTag_Empty)
         /\ (b # TAG_End /\ result'.status # "error") =>
                (ctl'.op = "read_payload" /\ ctl'.type = b)
    ELSE result'.status = "error" /\ result'.error = "Invalid tag ID"

(* the same for the element kind byte of a list *)
ItemKindJudged(b) ==
    IF b \in 0..TAG_Long_Array
    THEN /\ result'.error # "Invalid tag ID"
         /\ result'.status # "error" =>
                (/\ stack'[Len(stack')].fn = TAG_List
                 /\ stack'[Len(stack')].item_type = b
                 /\ stack'[Len(stack')].result.content_type = b)
    ELSE result'.status = "error" /\ result'.error = "Invalid tag ID"

(* C5: wherever a kind byte is read (root, compound entry, list element    *)
(* kind), a byte outside 0..12 makes the read fail with the invalid-kind   *)
(* error and a byte in 0..12 is taken as that kind.                        *)
C5_InvalidKindRejected ==
    [][ /\ (ctl.op = "read_named" /\ pos' > pos) =>
                NamedKindJudged(file'[pos + 1])
        /\ (/\ ctl.op = "read_payload" /\ ctl.type = TAG_List
            /\ ctl.depth <= MAX_DEPTH /\ pos' > pos) =>
                ItemKindJudged(file'[pos + 1]) ]_vars

(* a kind byte of 255 was rejected inside a container *)
C5_Witness ==
    /\ result.status = "error" /\ result.error = "Invalid tag ID"
    /\ pos > 1 /\ file[pos] = 255

(* C6: a string is written exactly when its UTF-8 length is at most 65535, *)
(* with that length as the 16-bit big-endian prefix, and fails as too long *)
(* from 65536 on.  Stated of the trees whose only strings are the root     *)
(* name and a root String payload.                                         *)
C6_StringLimit ==
    (origin = "written" /\ tree.tag.type \in {TAG_Byte, TAG_String}) =>
        LET nameLen == Len(toUtf8(tree.name))
            strLen == IF tree.tag.type = TAG_String
                      THEN Len(toUtf8(tree.tag.value)) ELSE 0
        IN  IF nameLen <= 65535 /\ strLen <= 65535
            THEN /\ out.status = "ok"
                 /\ SubSeq(out.bytes, 2, 3) = <<nameLen \div 256, nameLen % 256>>
            ELSE out.status = "error" /\ out.error = "String too long"

(* the 64-bit value of eight big-endian bytes *)
BigEndian64(b) ==
    <<b[1] * 256 + b[2], b[3] * 256 + b[4], b[5] * 256 + b[6], b[7] * 256 + b[8]>>

(* C7: a Long or Double payload decodes to the 64-bit big-endian value of  *)
(* its eight bytes, and a Long or Double that is written is read back      *)
(* with all its 64 bits.                                                   *)
C7_LongDecoded ==
    /\ (ctl.op = "return" /\ ctl.value.tag.type \in {TAG_Long, TAG_Double}) =>
            ctl.value.tag.value = BigEndian64(SubSeq(file, pos - 7, pos))
    /\ (/\ origin = "written" /\ tree.tag.type \in {TAG_Long, TAG_Double}
        /\ result.status # "none") =>
            (result.status = "ok" /\ result.value = tree)

(* the four big-endian bytes of the 32-bit pattern p *)
BigEndian32(p) ==
    <<(p \div 16777216) % 256, (p \div 65536) % 256, (p \div 256) % 256, p % 256>>

(* C8: a Float is written as the four big-endian bytes of its bit pattern  *)
(* and read back with exactly that pattern.                                *)
C8_FloatBitExact ==
    (origin = "written" /\ tree.tag.type = TAG_Float) =>
        /\ out.status = "ok"
        /\ SubSeq(out.bytes, Len(out.bytes) - 3, Len(out.bytes))
                = BigEndian32(tree.tag.value)
        /\ result.status # "none" =>
                (result.status = "ok" /\ result.value = tree)

(* a NaN with a payload was written and read back *)
C8_Witness ==
    /\ origin = "written" /\ tree.tag = Tag(TAG_Float, 2143289345)
    /\ result.status = "ok"

(* C9: every named entry read in a Compound payload is appended to the     *)
(* compound: the entries before it stay, in their order, and it comes      *)
(* last, whatever its name.                                                *)
C9_CompoundAppends ==
    [][ (/\ ctl.op = "return" /\ stack # <<>> /\ Top.fn = TAG_Compound
         /\ ctl.value.tag.type # TAG_End) =>
            stack'[Len(stack)].result.value =
                Append(Top.result.value,
                       [key |-> ctl.value.name, value |-> ctl.value.tag]) ]_vars

(* C10: a stream that was read to its end and is then cut by its last      *)
(* byte is read with the end-of-stream error and yields no tree.           *)
C10_Truncation ==
    (origin = "truncated" /\ result.status # "none") =>
        /\ result.status = "error" /\ result.error = "EOF"
        /\ result.value = NamedTag_Empty

(* the last byte of a container's stream was cut and the read failed there *)
C10_Witness ==
    /\ origin = "truncated" /\ result.status = "error" /\ result.error = "EOF"
    /\ Len(file) >= 3 /\ file[1] \in {TAG_List, TAG_Compound} /\ pos = Len(file)

(* C11: the Compound "root" with the Int "x" = 42 and the String "y" =     *)
(* "hi" is written as exactly the 24 bytes of scenario A: the kind byte,   *)
(* the length-prefixed name, each entry as kind, name and payload, one End *)
(* byte, and no count.                                                     *)
C11_ScenarioA ==
    (origin = "written" /\ tree = ScenarioA) =>
        /\ out.status = "ok"
        /\ out.bytes = <<10, 0, 4, 114, 111, 111, 116,
                         3, 0, 1, 120, 0, 0, 0, 42,
                         8, 0, 1, 121, 0, 2, 104, 105,
                         0>>

(* scenario A was written *)
C11_Witness ==
    /\ origin = "written" /\ tree = ScenarioA
    /\ out.status = "ok" /\ Len(out.bytes) = 24

(* C12: an empty List whose recorded element kind is k is written as the   *)
(* byte k and the count 00 00 00 00 and nothing more, and those five bytes *)
(* decode to an empty list whose element kind is k, for every kind k.      *)
C12_EmptyListKind ==
    /\ (origin = "written" /\ tree.tag.type = TAG_List /\ tree.tag.value = <<>>) =>
            /\ out.status = "ok"
            /\ out.bytes = <<TAG_List>> \o NameChunk(toUtf8(tree.name))
                                \o <<tree.tag.content_type, 0, 0, 0, 0>>
            /\ result.status # "none" =>
                    /\ result.status = "ok"
                    /\ result.value.tag = Tag_List(<<>>, tree.tag.content_type)
    /\ (/\ ctl.op = "return" /\ ctl.value.tag.type = TAG_List
        /\ ctl.value.tag.value = <<>>) =>
            /\ SubSeq(file, pos - 3, pos) = <<0, 0, 0, 0>>
            /\ ctl.value.tag.content_type = file[pos - 4]

(* an empty list of Int was written and read back as an empty list of Int *)
C12_Witness ==
    /\ origin = "written" /\ tree.tag = Tag_List(<<>>, TAG_Int)
    /\ result.status = "ok" /\ result.value.tag.content_type = TAG_Int

(* C13: a List tag is homogeneous after any constructions and appends:     *)
(* every child's kind is the list's element kind, a differing tag having   *)
(* been refused by the append.  Stated of the lists whose element kind is  *)
(* an established one, not End.                                            *)
C13_ListHomogeneous ==
    (/\ origin = "tag" /\ tree.tag.type = TAG_List
     /\ tree.tag.content_type # TAG_End) =>
        \A i \in DOMAIN tree.tag.value :
            tree.tag.value[i].type = tree.tag.content_type

(* C14: a typed accessor returns a payload exactly when the tag's kind is  *)
(* the accessor's kind and otherwise fails; every accessor fails on an End *)
(* tag.                                                                     *)
C14_AccessorsChecked ==
    (origin = "tag" /\ got.status # "none") =>
        (got.status = "ok" <=> tree.tag.type = got.accessor)

(* C15: a List payload whose element kind byte is End and whose count is   *)
(* greater than 0 is refused when the count is read: the reader never      *)
(* starts on the elements of such a list and never returns a list that     *)
(* holds End tags.                                                         *)
C15_EndListRejected ==
    /\ \A i \in DOMAIN stack :
            (stack[i].fn = TAG_List /\ stack[i].item_type = TAG_End) =>
                stack[i].length <= 0
    /\ (/\ ctl.op = "return" /\ ctl.value.tag.type = TAG_List
        /\ ctl.value.tag.content_type = TAG_End) =>
            ctl.value.tag.value = <<>>

(* C16: when the device fails a write or takes fewer bytes than it was     *)
(* given, the write call ends with an I/O error at that write and issues   *)
(* no write after it, whichever write it is.                               *)
C16_WriteFaultSurfaced ==
    origin = "faulted" =>
        /\ out.status = "error" /\ out.error = "errorString"
        /\ out.issued = out.fault

(* C17: a stream whose first byte is 0 is read as the empty root, kind End *)
(* and empty name, with exactly that one byte consumed; a root of kind End *)
(* is written as the single byte 00, whatever its name, and read back as   *)
(* the empty root.                                                         *)
C17_TopLevelEnd ==
    /\ (origin = "stream" /\ file # <<>> /\ file[1] = TAG_End) =>
            /\ pos = 1 /\ Len(file) = 1 /\ stack = <<>>
            /\ ctl.op \in {"return", "idle"}
            /\ ctl.op = "return" => ctl.value = NamedTag_Empty
            /\ ctl.op = "idle" =>
                    (result.status = "ok" /\ result.value = NamedTag_Empty)
    /\ (origin = "written" /\ tree.tag.type = TAG_End) =>
            /\ out.status = "ok" /\ out.bytes = <<0>>
            /\ result.status # "none" =>
                    /\ result.status = "ok" /\ result.value = NamedTag_Empty
                    /\ pos = 1

(* an End root with a name was written and read back *)
C17_Witness ==
    /\ origin = "written" /\ tree = NamedTag(Tag_End, <<114>>)
    /\ result.status = "ok" /\ pos = 1

(* the List payloads in progress around the payload about to be read *)
ListsAround == Cardinality({i \in DOMAIN stack : stack[i].fn = TAG_List})

(* C18: the depth of a payload is the number of lists it is an element of, *)
(* 0 for the root; a payload at a depth up to 1024 is not refused for its  *)
(* depth, and a payload at depth 1025 is refused with the max-depth error  *)
(* before any of its bytes is read: the stream stays at its first byte.    *)
C18_DepthBoundary ==
    [][ ctl.op = "read_payload" =>
            /\ ctl.depth = ListsAround
            /\ ctl.depth <= 1025
            /\ ctl.depth <= 1024 => result'.error # "Max depth reached"
            /\ ctl.depth = 1025 =>
                    /\ result'.status = "error"
                    /\ result'.error = "Max depth reached"
                    /\ pos' = pos /\ file' = file ]_vars

(* the read failed at depth 1025, after 1025 nested lists were opened *)
C18_Witness ==
    /\ env = "deep_list"
    /\ result.status = "error" /\ result.error = "Max depth reached"
    /\ pos = Len(file) /\ Len(file) = 3 + 5 * 1025

(* C19: the reader's steps are bounded by the length of the stream: no     *)
(* iteration of a list's decode loop leaves the stream where it was.  The  *)
(* read of an element consumes input, or fails, or opens a Compound (whose *)
(* End byte is still to be read).                                          *)
C19_LoopConsumes ==
    [][ (ctl.op = "read_payload" /\ stack # <<>> /\ Top.fn = TAG_List) =>
            \/ pos' > pos
            \/ result'.status = "error"
            \/ Len(stack') > Len(stack) ]_vars

(* C20: reading the bytes written for a valid tree, whatever bytes follow  *)
(* them, consumes exactly the bytes of the tree: the reader never goes     *)
(* past them and ends at the first byte that follows.                      *)
C20_ExactConsumption ==
    (origin = "written" /\ out.status = "ok" /\ ValidTree(tree)) =>
        /\ pos <= Len(out.bytes)
        /\ result.status # "none" =>
                (result.status = "ok" /\ pos = Len(out.bytes))

(* scenario A was read back from a device that holds more bytes after it *)
C20_Witness ==
    /\ origin = "written" /\ tree = ScenarioA
    /\ Len(file) > Len(out.bytes)
    /\ result.status = "ok" /\ pos = Len(out.bytes)

(* a tree whose lists hold only children of the list's element kind and    *)
(* whose compounds hold no End tag, at every node                          *)
RECURSIVE WellFormed(_)
WellFormed(t) ==
    CASE t.type = TAG_List ->
            \A i \in DOMAIN t.value :
                t.value[i].type = t.content_type /\ WellFormed(t.value[i])
      [] t.type = TAG_Compound ->
            \A i \in DOMAIN t.value :
                t.value[i].value.type # TAG_End /\ WellFormed(t.value[i].value)
      [] OTHER -> TRUE

Counted == {TAG_List, TAG_Int_Array, TAG_Long_Array}

(* the count of the i-th payload in progress in the stack s under the      *)
(* control c: the elements still to read, those held, and the one of a     *)
(* list that is being read                                                 *)
Declared(s, c, i) ==
    s[i].length + Len(s[i].result.value)
        + (IF i < Len(s) \/ c.op \in {"read_payload", "return"} THEN 1 ELSE 0)

(* a step keeps the count of every list and array in progress, starts one  *)
(* empty with the count field just read, and returns one only when none of *)
(* its elements is left to read                                            *)
CountKept ==
    /\ \A i \in DOMAIN stack \cap DOMAIN stack' :
            stack[i].fn \in Counted =>
                Declared(stack', ctl', i) = Declared(stack, ctl, i)
    /\ (Len(stack') = Len(stack) + 1 /\ stack'[Len(stack')].fn \in Counted) =>
            /\ stack'[Len(stack')].length = read_int(file', pos' - 4).val
            /\ stack'[Len(stack')].result.value = <<>>
    /\ (/\ Len(stack') = Len(stack) - 1 /\ ctl'.op = "return"
        /\ Top.fn \in Counted) =>
            /\ Top.length = 0
            /\ ctl'.value.tag = Top.result

(* C21: a tree returned by a successful read is well formed at every node: *)
(* the children of a List have the list's element kind, no Compound holds  *)
(* an End tag, and a list or array holds as many elements as its count     *)
(* field declared.                                                         *)
C21_WellFormedOutput ==
    /\ [](result.status = "ok" => WellFormed(result.value.tag))
    /\ [](ctl.op = "return" => WellFormed(ctl.value.tag))
    /\ [][CountKept]_vars

(* a stream was read as a list of two compounds *)
C21_Witness ==
    /\ origin = "stream" /\ result.status = "ok"
    /\ result.value.tag.type = TAG_List
    /\ result.value.tag.content_type = TAG_Compound
    /\ Len(result.value.tag.value) = 2

====
